---- MODULE Spec2Model ----
(***************************************************************************)
(* Model of xlsx_size_audit (src/xlsx_audit/py_xlsx_low_level_audit.py,    *)
(* the script text of SCRIPT_SOURCE): count_shared_strings, scan_xlsx,     *)
(* suggest_actions and the report-writing tail of main.                    *)
(*                                                                         *)
(* Encodings.  A byte string is a sequence of one-character strings.       *)
(* Python's None is the empty sequence and a present value v is <<v>>.     *)
(* A percentage rounded to 2 decimals is kept as the integer number of     *)
(* hundredths of a percent (66.67 is 6667, -100.0 is -10000).              *)
(***************************************************************************)
EXTENDS Integers, Sequences, FiniteSets, TLC

\* ---------------------------------------------------------------- bounds

\* Longest shared-strings content over Alphabet that Init enumerates.
MaxLen == 4
\* Largest size of one read; stands for the 65536 of f.read(65536).
MaxChunk == 7
\* Largest number of archive members.
MaxMembers == 3

\* ------------------------------------------------------------- constants

MiB10 == 10485760
MiB20 == 20971520
None == <<>>
Some(v) == <<v>>

\* --------------------------------------------------------------- inputs

Alphabet == {"<", "s", "i"}
\* The fixture of the marker test: the bytes of "<si><si/><si".
SiFixture == <<"<", "s", "i", ">", "<", "s", "i", "/", ">", "<", "s", "i">>
SeqsUpTo(S, n) == UNION {[1..k -> S] : k \in 0..n}
Contents == SeqsUpTo(Alphabet, MaxLen) \cup {SiFixture}
\* Contents of xl/sharedStrings.xml in the scanned archives.
ScanContents == {<<>>, <<"<", "s", "i">>, <<"<", "s", "i", "<", "s", "i">>}

\* A member path is the sequence of its "/"-separated components.
MediaName == <<"xl", "media", "img1.png">>
SheetName == <<"xl", "worksheets", "sheet1.xml">>
SharedName == <<"xl", "sharedStrings.xml">>
OtherName == <<"docProps", "app.xml">>
Names == {MediaName, SheetName, SharedName, OtherName}
\* (file_size, compress_size) of a member: an empty member, an inexact
\* quotient, exact ties of the second decimal (10000 * k / 32 ends in one
\* half for odd k) and a member that grew under compression.
SizePairs == {<<0, 0>>, <<3, 1>>, <<32, 1>>, <<32, 3>>, <<1, 3>>}
\* compress_size of the shared-strings member; its file_size is the length
\* of its content.
SharedComp == {2, 8}
\* args.top
Tops == {1, 25}
\* Longest top_paths handed to suggest_actions on its own.
MaxTop == 2

VARIABLES
    pc, exc,
    pathExists, validZip, archive, ssContent, readSize,
    openAttempted, i, rows,
    total_uncompressed, total_compressed, media_total, media_count,
    worksheets_total, sharedstrings_size, sharedstrings_count,
    ssOpened, fpos, buf, count, readFailed,
    main_rows, summary, top_n, tips, csvState, txtState

vars == <<pc, exc, pathExists, validZip, archive, ssContent, readSize,
          openAttempted, i, rows,
          total_uncompressed, total_compressed, media_total, media_count,
          worksheets_total, sharedstrings_size, sharedstrings_count,
          ssOpened, fpos, buf, count, readFailed,
          main_rows, summary, top_n, tips, csvState, txtState>>

inputVars == <<pathExists, validZip, archive, ssContent, readSize>>
scanVars == <<openAttempted, i, rows, total_uncompressed, total_compressed,
              media_total, media_count, worksheets_total, sharedstrings_size>>
countVars == <<ssOpened, fpos, buf, count, readFailed>>
mainVars == <<main_rows, summary, top_n, tips, csvState, txtState>>

\* ------------------------------------------------ count_shared_strings

Min(a, b) == IF a < b THEN a ELSE b

\* b.count(b"<si"): the marker cannot overlap itself, so the non-overlapping
\* count is the number of positions it starts at.
CountOcc(b) ==
    Cardinality({k \in 1..Len(b) :
        /\ k + 2 <= Len(b)
        /\ b[k] = "<" /\ b[k + 1] = "s" /\ b[k + 2] = "i"})

\* buf[-3:]
Tail3(b) == IF Len(b) <= 3 THEN b ELSE SubSeq(b, Len(b) - 2, Len(b))

\* Faulty variant: the except clause returns what was counted so far.
OnReadError_Partial(partial) == Some(partial)

\* The value count_shared_strings returns from its except clauses.
OnReadError(partial) == None


\* The locals of count_shared_strings are gone once scan_xlsx has its result.
LocalsDropped ==
    /\ fpos' = 0
    /\ buf' = <<>>
    /\ count' = 0

\* zf.open(path) ... return None: the part is opened, or the open raises
\* (KeyError when no member has the name, any other exception otherwise).
CountOpen ==
    /\ pc = "count_open"
    /\ \E ok \in BOOLEAN :
        IF ok /\ (\E k \in 1..Len(archive) : archive[k].filename = SharedName)
        THEN /\ ssOpened' = TRUE
             /\ count' = 0
             /\ buf' = <<>>
             /\ fpos' = 0
             /\ pc' = "count_read"
             /\ UNCHANGED <<readFailed, sharedstrings_count>>
        ELSE /\ sharedstrings_count' = OnReadError(0)
             /\ readFailed' = TRUE
             /\ pc' = "count_done"
             /\ UNCHANGED <<ssOpened, count, buf, fpos>>
    /\ UNCHANGED <<exc, inputVars, scanVars, mainVars>>

\* One pass of the for loop: f.read(65536) returned a non-empty chunk.
ReadChunk ==
    /\ pc = "count_read"
    /\ fpos < Len(ssContent)
    /\ LET n == Min(readSize, Len(ssContent) - fpos)
           chunk == SubSeq(ssContent, fpos + 1, fpos + n)
           b == buf \o chunk
       IN /\ count' = count + CountOcc(b)
          /\ buf' = Tail3(b)
          /\ fpos' = fpos + n
    /\ UNCHANGED <<pc, exc, inputVars, scanVars, mainVars, ssOpened,
                   readFailed, sharedstrings_count>>

\* f.read returned b"": the loop ends and count is returned.
ReadEOF ==
    /\ pc = "count_read"
    /\ fpos = Len(ssContent)
    /\ sharedstrings_count' = Some(count)
    /\ pc' = "count_done"
    /\ UNCHANGED <<exc, inputVars, scanVars, mainVars, countVars>>

\* f.read raised: except Exception: return None.
ReadFail ==
    /\ pc = "count_read"
    /\ sharedstrings_count' = OnReadError(count)
    /\ readFailed' = TRUE
    /\ pc' = "count_done"
    /\ UNCHANGED <<exc, inputVars, scanVars, mainVars, ssOpened, fpos, buf, count>>


\* ------------------------------------------------------------ scan_xlsx

\* str.startswith(prefix + "/") on component sequences: the components of
\* the prefix come first and something (possibly empty) follows the slash.
StartsWith(name, prefix) ==
    /\ Len(name) > Len(prefix)
    /\ \A k \in 1..Len(prefix) : name[k] = prefix[k]

\* name.startswith("xl/media/")
IsMedia(name) == StartsWith(name, <<"xl", "media">>)
\* name.startswith("xl/worksheets/")
IsWorksheet(name) == StartsWith(name, <<"xl", "worksheets">>)

\* round(n / d, 2) in hundredths, d > 0: Python rounds to nearest, exact
\* ties to the even neighbour.
RoundHalfEven(n, d) ==
    LET f == n \div d
        r == n - f * d
    IN IF 2 * r < d THEN f
       ELSE IF 2 * r > d THEN f + 1
       ELSE IF f % 2 = 0 THEN f ELSE f + 1

\* Faulty variant: the guard lets an empty member through.
RatioGuard_NonNegative(uncomp) == uncomp >= 0

\* The condition of "... if uncomp > 0 else 0.0".
RatioGuard(uncomp) == uncomp > 0

\* round((1 - (comp / uncomp)) * 100, 2) if <guard> else 0.0, in hundredths
\* of a percent. Evaluated only where the division is defined.
Savings(comp, uncomp) ==
    IF RatioGuard(uncomp)
    THEN RoundHalfEven(10000 * (uncomp - comp), uncomp)
    ELSE 0

\* The condition of "... if total_uncompressed else 0.0" (truthiness).
OverallGuard(total) == total # 0

OverallSavings(comp, uncomp) ==
    IF OverallGuard(uncomp)
    THEN RoundHalfEven(10000 * (uncomp - comp), uncomp)
    ELSE 0

\* Faulty variant: the compressed column repeats the uncompressed size.
MakeRow_SizesMixed(info) ==
    [path |-> info.filename,
     uncompressed_bytes |-> info.file_size,
     compressed_bytes |-> info.file_size,
     compression_savings_pct |-> Savings(info.compress_size, info.file_size)]

\* The dict appended to rows for one member.
MakeRow(info) ==
    [path |-> info.filename,
     uncompressed_bytes |-> info.file_size,
     compressed_bytes |-> info.compress_size,
     compression_savings_pct |-> Savings(info.compress_size, info.file_size)]

\* Faulty variant: a descending sort that reverses the rows of equal size
\* (sorting ascending and reversing the list).
GoesBefore_Strict(x, r) == x.uncompressed_bytes > r.uncompressed_bytes

\* One step of list.sort(key=uncompressed_bytes, reverse=True) seen as an
\* insertion: r goes behind every row that does not sort after it, so rows
\* with equal keys keep the order in which they are inserted.
GoesBefore(x, r) == x.uncompressed_bytes >= r.uncompressed_bytes

RECURSIVE InsertDesc(_, _)
InsertDesc(sorted, r) ==
    IF sorted = <<>> THEN <<r>>
    ELSE IF GoesBefore(sorted[Len(sorted)], r) THEN Append(sorted, r)
    ELSE Append(InsertDesc(SubSeq(sorted, 1, Len(sorted) - 1), r),
                sorted[Len(sorted)])

RECURSIVE SortFrom(_, _)
SortFrom(sorted, rest) ==
    IF rest = <<>> THEN sorted
    ELSE SortFrom(InsertDesc(sorted, Head(rest)), Tail(rest))

\* rows.sort(key=lambda r: r["uncompressed_bytes"], reverse=True)
SortRows(rs) == SortFrom(<<>>, rs)

NoSummary == [built |-> FALSE]

\* The summary dict of scan_xlsx.
MakeSummary ==
    [total_uncompressed |-> total_uncompressed,
     total_compressed |-> total_compressed,
     overall_compression_savings_pct |->
         OverallSavings(total_compressed, total_uncompressed),
     media_count |-> media_count,
     media_uncompressed_total |-> media_total,
     worksheets_uncompressed_total |-> worksheets_total,
     sharedStrings_uncompressed |-> sharedstrings_size,
     sharedStrings_est_count |-> sharedstrings_count]

\* An exception leaves scan_xlsx and main, which has no handler around the call.
Raise(e) ==
    /\ pc' = "raised"
    /\ exc' = e

\* main calls scan_xlsx(args.xlsx_path).
MainCallScan ==
    /\ pc = "main_start"
    /\ pc' = "scan_exists"
    /\ UNCHANGED <<exc, inputVars, scanVars, countVars, mainVars, sharedstrings_count>>

\* Faulty variant: the existence check is missing.
MissingPathRaises_Never(exists) == FALSE

\* The outcome of "if not os.path.exists(path): raise FileNotFoundError(path)".
MissingPathRaises(exists) == ~exists

CheckExists ==
    /\ pc = "scan_exists"
    /\ IF MissingPathRaises(pathExists)
       THEN Raise("FileNotFoundError")
       ELSE pc' = "scan_open" /\ exc' = exc
    /\ UNCHANGED <<inputVars, scanVars, countVars, mainVars, sharedstrings_count>>

\* with zipfile.ZipFile(path) as zf: and the initialisation of the locals.
OpenZip ==
    /\ pc = "scan_open"
    /\ openAttempted' = TRUE
    /\ IF ~pathExists THEN Raise("FileNotFoundError")
       ELSE IF ~validZip THEN Raise("BadZipFile")
       ELSE pc' = "scan_loop" /\ exc' = exc
    /\ UNCHANGED <<inputVars, i, rows, total_uncompressed, total_compressed,
                   media_total, media_count, worksheets_total,
                   sharedstrings_size, sharedstrings_count, countVars, mainVars>>

\* One pass of "for info in zf.infolist()".
LoopStep ==
    /\ pc = "scan_loop"
    /\ i <= Len(archive)
    /\ LET info == archive[i]
           name == info.filename
           comp == info.compress_size
           uncomp == info.file_size
       IN /\ total_uncompressed' = total_uncompressed + uncomp
          /\ total_compressed' = total_compressed + comp
          /\ media_total' = IF IsMedia(name) THEN media_total + uncomp ELSE media_total
          /\ media_count' = IF IsMedia(name) THEN media_count + 1 ELSE media_count
          /\ worksheets_total' =
                IF IsWorksheet(name) THEN worksheets_total + uncomp ELSE worksheets_total
          /\ sharedstrings_size' =
                IF name = SharedName THEN Some(uncomp) ELSE sharedstrings_size
          /\ IF RatioGuard(uncomp) /\ uncomp = 0
             THEN Raise("ZeroDivisionError") /\ UNCHANGED <<rows, i>>
             ELSE /\ rows' = Append(rows, MakeRow(info))
                  /\ i' = i + 1
                  /\ UNCHANGED <<pc, exc>>
    /\ UNCHANGED <<inputVars, openAttempted, sharedstrings_count, countVars, mainVars>>

\* The loop is over: "if sharedstrings_size is not None" decides whether
\* count_shared_strings(zf) is called.
AfterLoop ==
    /\ pc = "scan_loop"
    /\ i > Len(archive)
    /\ pc' = IF sharedstrings_size # None THEN "count_open" ELSE "scan_sort"
    /\ UNCHANGED <<exc, inputVars, scanVars, countVars, mainVars, sharedstrings_count>>

\* rows.sort(...), the summary dict, return rows, summary; main binds both.
ScanReturn ==
    /\ pc \in {"scan_sort", "count_done"}
    /\ LocalsDropped
    /\ rows' = SortRows(rows)
    /\ IF OverallGuard(total_uncompressed) /\ total_uncompressed = 0
       THEN Raise("ZeroDivisionError") /\ UNCHANGED <<main_rows, summary>>
       ELSE /\ main_rows' = rows'
            /\ summary' = MakeSummary
            /\ pc' = "main_print"
            /\ exc' = exc
    /\ UNCHANGED <<inputVars, openAttempted, i, total_uncompressed, total_compressed,
                   media_total, media_count, worksheets_total, sharedstrings_size,
                   sharedstrings_count, ssOpened, readFailed, top_n, tips,
                   csvState, txtState>>


\* ------------------------------------------------------ suggest_actions

\* dict.get(key, default)
Get(d, key, default) == IF key \in DOMAIN d THEN d[key] ELSE default

Tip(rule) == [rule |-> rule, path |-> <<>>]
LargestTip(worst) == [rule |-> "largest", path |-> worst]

\* media_count > 0 and media_uncompressed_total > 10 * 1024 * 1024
RuleMedia(s) ==
    /\ Get(s, "media_count", 0) > 0
    /\ Get(s, "media_uncompressed_total", 0) > MiB10

\* Faulty variant: the threshold itself already fires the rule.
RuleShared_AtThreshold(s) ==
    LET ss == Get(s, "sharedStrings_uncompressed", None)
    IN /\ ss # None
       /\ ss[1] >= MiB10

\* ss and ss > 10 * 1024 * 1024
RuleShared(s) ==
    LET ss == Get(s, "sharedStrings_uncompressed", None)
    IN /\ ss # None
       /\ ss[1] # 0
       /\ ss[1] > MiB10

\* worksheets_uncompressed_total > 20 * 1024 * 1024
RuleSheets(s) == Get(s, "worksheets_uncompressed_total", 0) > MiB20

\* Faulty variant: a single top row is not reported.
RuleLargest_MoreThanOne(top_paths) == Len(top_paths) > 1

\* if top_paths:
RuleLargest(top_paths) == top_paths # <<>>

\* Faulty variant: the fallback looks at the threshold tips alone.
FallbackFires_NoThresholdTip(t) == \A k \in 1..Len(t) : t[k].rule = "largest"

\* if not tips:
FallbackFires(t) == t = <<>>

suggest_actions(s, top_paths) ==
    LET t1 == IF RuleMedia(s) THEN <<Tip("media")>> ELSE <<>>
        t2 == IF RuleShared(s) THEN Append(t1, Tip("shared")) ELSE t1
        t3 == IF RuleSheets(s) THEN Append(t2, Tip("worksheets")) ELSE t2
        t4 == IF RuleLargest(top_paths)
              THEN Append(t3, LargestTip(top_paths[1].path))
              ELSE t3
    IN IF FallbackFires(t4) THEN Append(t4, Tip("fallback")) ELSE t4

\* The call of suggest_actions on its own.
SuggestCall ==
    /\ pc = "suggest"
    /\ tips' = suggest_actions(summary, top_n)
    /\ pc' = "suggested"
    /\ UNCHANGED <<exc, inputVars, scanVars, countVars, sharedstrings_count,
                   main_rows, summary, top_n, csvState, txtState>>

\* ----------------------------------------------------------------- main

\* rows[:n] for n >= 0
Take(rs, n) == SubSeq(rs, 1, Min(n, Len(rs)))

\* top_n = rows[:args.top], the console summary and the suggestions.
MainPrint ==
    /\ pc = "main_print"
    /\ \E top \in Tops :
        /\ top_n' = Take(main_rows, top)
        /\ tips' = suggest_actions(summary, top_n')
    /\ pc' = "save_csv"
    /\ UNCHANGED <<exc, inputVars, scanVars, countVars, sharedstrings_count,
                   main_rows, summary, csvState, txtState>>

\* Faulty variant: the CSV export has no handler.
OnCsvError_Uncaught == [pc |-> "raised", exc |-> "OSError"]

\* "except Exception as e: print(...)" around the CSV export: where main
\* continues and the exception that is left pending.
OnCsvError == [pc |-> "save_txt", exc |-> "none"]

\* The CSV export: the file is written, or writing it raises.
SaveCSV ==
    /\ pc = "save_csv"
    /\ \E ok \in BOOLEAN :
        IF ok
        THEN csvState' = "written" /\ pc' = "save_txt" /\ exc' = exc
        ELSE csvState' = "failed" /\ pc' = OnCsvError.pc /\ exc' = OnCsvError.exc
    /\ UNCHANGED <<inputVars, scanVars, countVars, sharedstrings_count,
                   main_rows, summary, top_n, tips, txtState>>

\* "except Exception as e: print(...)" around the TXT export.
OnTxtError == [pc |-> "done", exc |-> "none"]

\* The TXT export, which renders suggest_actions(summary, rows[:25]).
SaveTXT ==
    /\ pc = "save_txt"
    /\ \E ok \in BOOLEAN :
        IF ok
        THEN txtState' = "written" /\ pc' = "done" /\ exc' = exc
        ELSE txtState' = "failed" /\ pc' = OnTxtError.pc /\ exc' = OnTxtError.exc
    /\ UNCHANGED <<inputVars, scanVars, countVars, sharedstrings_count,
                   main_rows, summary, top_n, tips, csvState>>

\* -------------------------------------------------------- specifications

SharedInfo(c, k) == [filename |-> SharedName, file_size |-> Len(c), compress_size |-> k]

Infos ==
    {[filename |-> n, file_size |-> p[1], compress_size |-> p[2]] :
        n \in Names \ {SharedName}, p \in SizePairs}
    \cup {SharedInfo(c, k) : c \in ScanContents, k \in SharedComp}

\* Member paths are unique within one archive.
Archives ==
    {a \in SeqsUpTo(Infos, MaxMembers) :
        \A x, y \in 1..Len(a) : x # y => a[x].filename # a[y].filename}

HasShared(a) == \E k \in 1..Len(a) : a[k].filename = SharedName

\* The bytes of the shared-strings member of a.
ContentOf(a) ==
    IF HasShared(a)
    THEN CHOOSE c \in ScanContents :
            \E k \in 1..Len(a) : a[k].filename = SharedName /\ a[k].file_size = Len(c)
    ELSE <<>>

InitLocals ==
    /\ exc = "none"
    /\ openAttempted = FALSE
    /\ i = 1
    /\ rows = <<>>
    /\ total_uncompressed = 0
    /\ total_compressed = 0
    /\ media_total = 0
    /\ media_count = 0
    /\ worksheets_total = 0
    /\ sharedstrings_size = None
    /\ sharedstrings_count = None
    /\ ssOpened = FALSE
    /\ fpos = 0
    /\ buf = <<>>
    /\ count = 0
    /\ readFailed = FALSE
    /\ main_rows = <<>>
    /\ tips = <<>>
    /\ csvState = "none"
    /\ txtState = "none"

\* main on a path that is missing, is no archive, or is an archive.
Init ==
    /\ pc = "main_start"
    /\ InitLocals
    /\ summary = NoSummary
    /\ top_n = <<>>
    /\ pathExists \in BOOLEAN
    /\ validZip \in BOOLEAN
    /\ archive \in Archives
    /\ (pathExists /\ validZip) \/ archive = <<>>
    /\ pathExists \/ ~validZip
    /\ ssContent = ContentOf(archive)
    /\ readSize = 3

Next ==
    \/ MainCallScan
    \/ CheckExists
    \/ OpenZip
    \/ LoopStep
    \/ AfterLoop
    \/ CountOpen
    \/ ReadChunk
    \/ ReadEOF
    \/ ReadFail
    \/ ScanReturn
    \/ MainPrint
    \/ SaveCSV
    \/ SaveTXT

Spec == Init /\ [][Next]_vars

\* count_shared_strings on its own: any content, any read size.
InitCount ==
    /\ pc = "count_open"
    /\ InitLocals
    /\ summary = NoSummary
    /\ top_n = <<>>
    /\ pathExists = TRUE
    /\ validZip = TRUE
    /\ ssContent \in Contents
    /\ archive \in {<<SharedInfo(ssContent, 2)>>} \cup (IF ssContent = <<>> THEN {<<>>} ELSE {})
    /\ readSize \in 1..MaxChunk

NextCount ==
    \/ CountOpen
    \/ ReadChunk
    \/ ReadEOF
    \/ ReadFail

SpecCount == InitCount /\ [][NextCount]_vars

\* suggest_actions on its own: any summary around the thresholds, with any
\* of its keys missing, and any short top_paths.
SummaryKeys == {"media_count", "media_uncompressed_total",
                "sharedStrings_uncompressed", "worksheets_uncompressed_total"}

FullSummaries ==
    [media_count : 0..2,
     media_uncompressed_total : {0, MiB10, MiB10 + 1},
     sharedStrings_uncompressed : {None, Some(0), Some(MiB10), Some(MiB10 + 1)},
     worksheets_uncompressed_total : {0, MiB20, MiB20 + 1}]

SuggestSummaries ==
    {[k \in K |-> s[k]] : K \in SUBSET SummaryKeys, s \in FullSummaries}

TopRowsPool ==
    {MakeRow([filename |-> n, file_size |-> 3, compress_size |-> 1]) :
        n \in {MediaName, OtherName}}

InitSuggest ==
    /\ pc = "suggest"
    /\ InitLocals
    /\ pathExists = TRUE
    /\ validZip = TRUE
    /\ archive = <<>>
    /\ ssContent = <<>>
    /\ readSize = 1
    /\ summary \in SuggestSummaries
    /\ top_n \in SeqsUpTo(TopRowsPool, MaxTop)

NextSuggest == SuggestCall

SpecSuggest == InitSuggest /\ [][NextSuggest]_vars


\* --------------------------------------------------------------- claims

Abs(x) == IF x < 0 THEN -x ELSE x

RECURSIVE SumOf(_, _)
\* The sum of field f over the records of sequence q.
SumOf(q, f) == IF q = <<>> THEN 0 ELSE q[1][f] + SumOf(Tail(q), f)

\* scan_xlsx has returned to main.
ScanReturned == pc \in {"main_print", "save_csv", "save_txt", "done"}

HasTip(rule) == \E k \in 1..Len(tips) : tips[k].rule = rule

\* The threshold conditions of rules 1-3 as the specification words them.
ImageBloat ==
    /\ "media_count" \in DOMAIN summary
    /\ summary.media_count > 0
    /\ "media_uncompressed_total" \in DOMAIN summary
    /\ summary.media_uncompressed_total > 10 * 1024 * 1024
SharedTextBloat ==
    /\ "sharedStrings_uncompressed" \in DOMAIN summary
    /\ Len(summary.sharedStrings_uncompressed) = 1
    /\ summary.sharedStrings_uncompressed[1] > 10 * 1024 * 1024
UsedRange ==
    /\ "worksheets_uncompressed_total" \in DOMAIN summary
    /\ summary.worksheets_uncompressed_total > 20 * 1024 * 1024

\* C1: when count_shared_strings returns a count, it is the number of
\* occurrences of the marker <si in the whole content, wherever the reads
\* cut the content.
C1_CountIsExact ==
    (pc = "count_done" /\ ~readFailed)
        => sharedstrings_count = Some(CountOcc(ssContent))

C3_LargestIffTopRows ==
    pc = "suggested"
        => /\ top_n # <<>> =>
                Cardinality({k \in 1..Len(tips) : tips[k].rule = "largest"}) = 1
           /\ top_n # <<>> =>
                \E k \in 1..Len(tips) : tips[k] = LargestTip(top_n[1].path)
           /\ top_n = <<>> => ~HasTip("largest")

C3_Witness ==
    /\ pc = "suggested"
    /\ Len(top_n) = 1
    /\ ImageBloat
    /\ HasTip("media")
    /\ HasTip("largest")

RuleRank(rule) ==
    CASE rule = "media" -> 1
      [] rule = "shared" -> 2
      [] rule = "worksheets" -> 3
      [] rule = "largest" -> 4
      [] rule = "fallback" -> 5

\* C4: the output holds each rule's suggestion at most once and in the rule
\* order; each of rules 1-3 is in it exactly when its own strict threshold
\* condition holds.
C4_OrderAndIndependence ==
    pc = "suggested"
        => /\ \A j, k \in 1..Len(tips) :
                j < k => RuleRank(tips[j].rule) < RuleRank(tips[k].rule)
           /\ HasTip("media") <=> ImageBloat
           /\ HasTip("shared") <=> SharedTextBloat
           /\ HasTip("worksheets") <=> UsedRange

C4_Witness ==
    /\ pc = "suggested"
    /\ Len(tips) = 4
    /\ ImageBloat /\ SharedTextBloat /\ UsedRange
    /\ top_n # <<>>

\* C5: the rows scan_xlsx returns are one per archive member, with the
\* member's sizes, and their uncompressed and compressed sizes add up to the
\* totals of the summary.
C5_RowsSumToTotals ==
    ScanReturned
        => /\ SumOf(main_rows, "uncompressed_bytes") = summary.total_uncompressed
           /\ SumOf(main_rows, "compressed_bytes") = summary.total_compressed
           /\ Len(main_rows) = Len(archive)
           /\ \A m \in 1..Len(archive) :
                \E k \in 1..Len(main_rows) :
                    /\ main_rows[k].path = archive[m].filename
                    /\ main_rows[k].uncompressed_bytes = archive[m].file_size
                    /\ main_rows[k].compressed_bytes = archive[m].compress_size

C5_Witness ==
    /\ pc = "done"
    /\ Len(main_rows) = 3
    /\ summary.total_uncompressed = 67
    /\ summary.total_compressed = 5

\* The place of a member path in the archive's enumeration.
PlaceOf(path) == CHOOSE m \in 1..Len(archive) : archive[m].filename = path

\* C6: the returned rows are non-increasing in uncompressed_bytes, and rows
\* of equal size stand in the order of the archive's enumeration.
C6_SortedStable ==
    ScanReturned
        => \A j, k \in 1..Len(main_rows) :
            j < k =>
                /\ main_rows[j].uncompressed_bytes >= main_rows[k].uncompressed_bytes
                /\ main_rows[j].uncompressed_bytes = main_rows[k].uncompressed_bytes
                    => PlaceOf(main_rows[j].path) < PlaceOf(main_rows[k].path)

C6_Witness ==
    /\ pc = "done"
    /\ Len(main_rows) = 3
    /\ archive[1].file_size < archive[2].file_size
    /\ archive[1].file_size = archive[3].file_size
    /\ main_rows[2].path = archive[1].filename
    /\ main_rows[3].path = archive[3].filename

\* What the archive alone determines of the result of scan_xlsx.
ArchiveRows == [m \in 1..Len(archive) |-> MakeRow(archive[m])]
IsMediaInfo(info) == IsMedia(info.filename)
IsSheetInfo(info) == IsWorksheet(info.filename)
IsSharedInfo(info) == info.filename = SharedName
MediaMembers == SelectSeq(archive, IsMediaInfo)
SheetMembers == SelectSeq(archive, IsSheetInfo)
SharedMembers == SelectSeq(archive, IsSharedInfo)

\* C7: a failure while the shared-strings part is read, at the open or after
\* any number of chunks, leaves sharedStrings_est_count absent and raises
\* nothing; rows and the other summary fields are what the archive alone
\* determines; without a shared-strings member both shared-strings fields
\* are absent and the part is never opened.
C7_ReadFailureIsLocal ==
    /\ readFailed => (sharedstrings_count = None /\ exc = "none")
    /\ ScanReturned =>
        /\ readFailed => summary.sharedStrings_est_count = None
        /\ main_rows = SortRows(ArchiveRows)
        /\ summary.total_uncompressed = SumOf(archive, "file_size")
        /\ summary.total_compressed = SumOf(archive, "compress_size")
        /\ summary.overall_compression_savings_pct =
                OverallSavings(SumOf(archive, "compress_size"), SumOf(archive, "file_size"))
        /\ summary.media_count = Len(MediaMembers)
        /\ summary.media_uncompressed_total = SumOf(MediaMembers, "file_size")
        /\ summary.worksheets_uncompressed_total =
                SumOf(SheetMembers, "file_size")
        /\ summary.sharedStrings_uncompressed =
                (IF HasShared(archive)
                 THEN Some(SharedMembers[1].file_size)
                 ELSE None)
        /\ ~HasShared(archive) =>
            /\ summary.sharedStrings_est_count = None
            /\ ~ssOpened
            /\ ~readFailed

\* A read fails after a chunk with a marker was counted.
C7_Witness ==
    /\ pc = "count_done"
    /\ readFailed
    /\ ssOpened
    /\ fpos > 0
    /\ count > 0
    /\ sharedstrings_count = None

\* C8: on a missing path scan_xlsx raises FileNotFoundError before the
\* archive is opened or a member is read, returns no rows and no summary,
\* and the error reaches the caller.
C8_MissingPath ==
    ~pathExists
        => /\ ~openAttempted
           /\ ~ssOpened
           /\ i = 1
           /\ rows = <<>>
           /\ main_rows = <<>>
           /\ summary = NoSummary
           /\ pc \in {"main_start", "scan_exists", "raised"}
           /\ pc = "raised" => exc = "FileNotFoundError"

C8_Witness ==
    /\ ~pathExists
    /\ pc = "raised"
    /\ exc = "FileNotFoundError"

\* s is 0.0 for an empty size, otherwise (1 - comp/uncomp) * 100 to the
\* nearest hundredth, and not positive when comp exceeds uncomp (a tiny
\* loss rounds to -0.0).
IsSavingsOf(s, comp, uncomp) ==
    IF uncomp = 0 THEN s = 0
    ELSE /\ 2 * Abs(s * uncomp - 10000 * (uncomp - comp)) <= uncomp
         /\ comp > uncomp => s <= 0

\* C9: every member's compression_savings_% is 0.0 when its uncompressed
\* size is 0, with no division by zero, and otherwise
\* (1 - compressed/uncompressed) * 100 rounded to 2 decimals; the overall
\* savings is the same on the grand totals.
C9_SavingsZeroGuarded ==
    /\ exc # "ZeroDivisionError"
    /\ \A k \in 1..Len(rows) :
        IsSavingsOf(rows[k].compression_savings_pct,
                    rows[k].compressed_bytes, rows[k].uncompressed_bytes)
    /\ ScanReturned =>
        IsSavingsOf(summary.overall_compression_savings_pct,
                    summary.total_compressed, summary.total_uncompressed)

\* An archive of empty members only: every division is guarded away.
C9_Witness ==
    /\ pc = "done"
    /\ Len(main_rows) = 2
    /\ \A k \in 1..2 : main_rows[k].uncompressed_bytes = 0
    /\ main_rows[1].compressed_bytes = 2
    /\ summary.total_uncompressed = 0
    /\ summary.total_compressed = 2
    /\ summary.overall_compression_savings_pct = 0

\* C10: a failing CSV export still leads to the TXT export, a failing TXT
\* export leaves the CSV outcome as it is, neither touches rows or summary,
\* and neither leaves an exception to end main.
C10_ExportsIndependent ==
    [][/\ pc = "save_csv" =>
            /\ pc' = "save_txt"
            /\ exc' = "none"
            /\ main_rows' = main_rows
            /\ summary' = summary
       /\ pc = "save_txt" =>
            /\ pc' = "done"
            /\ exc' = "none"
            /\ csvState' = csvState
            /\ main_rows' = main_rows
            /\ summary' = summary]_vars

C10_Witness ==
    /\ pc = "done"
    /\ exc = "none"
    /\ csvState = "failed"
    /\ txtState = "written"
    /\ Len(main_rows) > 0

====
